---------------------------- MODULE Spec2Model ----------------------------
(***************************************************************************)
(* Model of bot_huelgas.py: the relevance filter, the HTML-link extractors, *)
(* the persisted seen-list, and the polling loop started by on_ready.       *)
(*                                                                         *)
(* A Python str is modelled as a sequence of one-character strings, so      *)
(* that lower(), strip(), `in`, startswith() and slicing are computed       *)
(* character by character as the interpreter computes them.                 *)
(***************************************************************************)
EXTENDS Integers, Sequences, FiniteSets, TLC

(***************************************************************************)
(* Python str primitives used by the program                                *)
(***************************************************************************)

\* The cased characters that occur in the inputs: str.lower() maps UPPER[i] to LOWER[i]
\* and leaves every other character alone.
UPPER ==
    <<"A","B","C","D","E","F","G","H","I","J","K","L","M","N","O","P","Q","R","S","T","U","V",
      "W","X","Y","Z","Á","É","Í","Ó","Ú","Ñ">>

LOWER ==
    <<"a","b","c","d","e","f","g","h","i","j","k","l","m","n","o","p","q","r","s","t","u","v",
      "w","x","y","z","á","é","í","ó","ú","ñ">>

lower_char(c) ==
    IF \E i \in 1..Len(UPPER) : UPPER[i] = c
    THEN LOWER[CHOOSE i \in 1..Len(UPPER) : UPPER[i] = c]
    ELSE c

\* str.lower()
lower(s) == [i \in 1..Len(s) |-> lower_char(s[i])]

\* `sub in s` for two strs
contains(s, sub) ==
    \E i \in 1..(Len(s) - Len(sub) + 1) : SubSeq(s, i, i + Len(sub) - 1) = sub

\* s.startswith(p)
startswith(s, p) == Len(s) >= Len(p) /\ SubSeq(s, 1, Len(p)) = p

\* s.rstrip(c) for a one-character c: every trailing c is removed
RECURSIVE rstrip(_, _)
rstrip(s, c) ==
    IF s # <<>> /\ s[Len(s)] = c THEN rstrip(SubSeq(s, 1, Len(s) - 1), c) ELSE s

\* s.lstrip(c) for a one-character c: every leading c is removed
RECURSIVE lstrip(_, _)
lstrip(s, c) ==
    IF s # <<>> /\ s[1] = c THEN lstrip(Tail(s), c) ELSE s

\* The characters str.strip() removes
WHITESPACE == {" ", "\t", "\n", "\r", "\f"}

RECURSIVE strip_left(_)
strip_left(s) ==
    IF s # <<>> /\ s[1] \in WHITESPACE THEN strip_left(Tail(s)) ELSE s

RECURSIVE strip_right(_)
strip_right(s) ==
    IF s # <<>> /\ s[Len(s)] \in WHITESPACE
    THEN strip_right(SubSeq(s, 1, Len(s) - 1)) ELSE s

\* s.strip()
strip(s) == strip_right(strip_left(s))

\* s[:n]
prefix(s, n) == SubSeq(s, 1, IF Len(s) < n THEN Len(s) ELSE n)

(***************************************************************************)
(* Configuration constants of the program                                   *)
(***************************************************************************)

\* "huelga"
ANCHOR ==
    <<"h","u","e","l","g","a">>

EDU_KEYWORDS ==
    <<
      \* "educación"
      <<"e","d","u","c","a","c","i","ó","n">>,
      \* "educativo"
      <<"e","d","u","c","a","t","i","v","o">>,
      \* "enseñanza"
      <<"e","n","s","e","ñ","a","n","z","a">>,
      \* "estudiantes"
      <<"e","s","t","u","d","i","a","n","t","e","s">>,
      \* "alumnos"
      <<"a","l","u","m","n","o","s">>,
      \* "alumnado"
      <<"a","l","u","m","n","a","d","o">>,
      \* "colegio"
      <<"c","o","l","e","g","i","o">>,
      \* "instituto"
      <<"i","n","s","t","i","t","u","t","o">>,
      \* "universidad"
      <<"u","n","i","v","e","r","s","i","d","a","d">>,
      \* "universidades"
      <<"u","n","i","v","e","r","s","i","d","a","d","e","s">>,
      \* "campus"
      <<"c","a","m","p","u","s">>,
      \* "profesorado"
      <<"p","r","o","f","e","s","o","r","a","d","o">>,
      \* "profesores"
      <<"p","r","o","f","e","s","o","r","e","s">>,
      \* "maestros"
      <<"m","a","e","s","t","r","o","s">>,
      \* "docentes"
      <<"d","o","c","e","n","t","e","s">>,
      \* "escuela"
      <<"e","s","c","u","e","l","a">>,
      \* "upm"
      <<"u","p","m">>,
      \* "ucm"
      <<"u","c","m">>,
      \* "uam"
      <<"u","a","m">>,
      \* "transporte escolar"
      <<"t","r","a","n","s","p","o","r","t","e"," ","e","s","c","o","l","a","r">>
    >>

SOURCES ==
    <<
      [ name |->  \* "Comunidad de Madrid - Huelgas"
          <<"C","o","m","u","n","i","d","a","d"," ","d","e"," ","M","a","d","r","i","d"," ","-",
            " ","H","u","e","l","g","a","s">>,
        type |-> "html",
        url |->  \* "https://www.comunidad.madrid/servicios/empleo/huelgas"
          <<"h","t","t","p","s",":","/","/","w","w","w",".","c","o","m","u","n","i","d","a","d",
            ".","m","a","d","r","i","d","/","s","e","r","v","i","c","i","o","s","/","e","m","p",
            "l","e","o","/","h","u","e","l","g","a","s">> ],
      [ name |->  \* "BOCM - Últimos boletines"
          <<"B","O","C","M"," ","-"," ","Ú","l","t","i","m","o","s"," ","b","o","l","e","t","i",
            "n","e","s">>,
        type |-> "bocm_search",
        url |->  \* "https://www.bocm.es"
          <<"h","t","t","p","s",":","/","/","w","w","w",".","b","o","c","m",".","e","s">> ]
    >>

\* "Aviso de huelga educativa"
TITLE_HTML_LINK ==
    <<"A","v","i","s","o"," ","d","e"," ","h","u","e","l","g","a"," ","e","d","u","c","a","t",
      "i","v","a">>

\* "Posible referencia a huelga educativa"
TITLE_HTML_PAGE ==
    <<"P","o","s","i","b","l","e"," ","r","e","f","e","r","e","n","c","i","a"," ","a"," ","h",
      "u","e","l","g","a"," ","e","d","u","c","a","t","i","v","a">>

\* "BOCM: aviso de huelga educativa"
TITLE_BOCM_LINK ==
    <<"B","O","C","M",":"," ","a","v","i","s","o"," ","d","e"," ","h","u","e","l","g","a"," ",
      "e","d","u","c","a","t","i","v","a">>

\* "BOCM: posible mención a huelga educativa"
TITLE_BOCM_PAGE ==
    <<"B","O","C","M",":"," ","p","o","s","i","b","l","e"," ","m","e","n","c","i","ó","n"," ",
      "a"," ","h","u","e","l","g","a"," ","e","d","u","c","a","t","i","v","a">>

(***************************************************************************)
(* Relevance filter                                                         *)
(***************************************************************************)

\* is_relevant without its text.lower()
is_relevant_cased(text) ==
    LET t == text
    IN  IF ~contains(t, ANCHOR) THEN FALSE
        ELSE \E k \in 1..Len(EDU_KEYWORDS) : contains(t, EDU_KEYWORDS[k])

\* is_relevant(text)
is_relevant(text) ==
    LET t == lower(text)
    IN  IF ~contains(t, ANCHOR) THEN FALSE
        ELSE \E k \in 1..Len(EDU_KEYWORDS) : contains(t, EDU_KEYWORDS[k])

(***************************************************************************)
(* Fetched documents.  A parsed document is the sequence of its nodes in    *)
(* document order: a text node [tag |-> "text", text], or a hyperlink       *)
(* [tag |-> "a", text, href], whose href field is absent when the element   *)
(* carries no href attribute.                                               *)
(***************************************************************************)

Text(t) == [tag |-> "text", text |-> t]

Link(t, h) == [tag |-> "a", text |-> t, href |-> h]

BareLink(t) == [tag |-> "a", text |-> t]

\* soup.find_all("a")
find_all_a(html) == SelectSeq(html, LAMBDA n : n.tag = "a")

\* soup.get_text(): the text of every node, concatenated in document order
RECURSIVE get_text(_)
get_text(html) ==
    IF html = <<>> THEN <<>> ELSE Head(html).text \o get_text(Tail(html))

\* a.get("href") or ""
get_href(a) == IF "href" \in DOMAIN a THEN a.href ELSE <<>>

\* resolve without its rstrip and lstrip
resolve_unstripped(src, href) ==
    IF startswith(href, <<"h","t","t","p">>)
    THEN href
    ELSE src.url \o <<"/">> \o href

\* href if href.startswith("http") else src["url"].rstrip("/") + "/" + href.lstrip("/")
resolve(src, href) ==
    IF startswith(href, <<"h","t","t","p">>)
    THEN href
    ELSE rstrip(src.url, "/") \o <<"/">> \o lstrip(href, "/")

\* The for-loop over the hyperlinks, shared by check_html_for_huelga and check_bocm
\* (the two differ in the title given to a link without text).
RECURSIVE scan_links(_, _, _)
scan_links(src, anchors, default_title) ==
    IF anchors = <<>> THEN <<>>
    ELSE LET a      == Head(anchors)
             href   == get_href(a)
             a_text == strip(a.text)
             url    == resolve(src, href)
             rest   == scan_links(src, Tail(anchors), default_title)
         IN  IF is_relevant(a_text \o <<" ">> \o href)
             THEN << [ id      |-> src.name \o <<":",":">> \o url,
                       title   |-> IF a_text # <<>> THEN a_text ELSE default_title,
                       url     |-> url,
                       summary |-> a_text ] >> \o rest
             ELSE rest

\* The whole-page item with soup.get_text() for its summary, without the [:400]
page_item_untruncated(src, html, title) ==
    [ id      |-> src.name \o <<":",":">> \o src.url,
      title   |-> title,
      url     |-> src.url,
      summary |-> get_text(html) ]

\* The whole-page item appended when no hyperlink matched
page_item(src, html, title) ==
    [ id      |-> src.name \o <<":",":">> \o src.url,
      title   |-> title,
      url     |-> src.url,
      summary |-> prefix(get_text(html), 400) ]

\* check_html_for_huelga, after the fetch
check_html_for_huelga(src, html) ==
    LET results == scan_links(src, find_all_a(html), TITLE_HTML_LINK)
    IN  IF is_relevant(get_text(html)) /\ results = <<>>
        THEN Append(results, page_item(src, html, TITLE_HTML_PAGE))
        ELSE results

\* check_bocm, after the fetch
check_bocm(src, html) ==
    LET results == scan_links(src, find_all_a(html), TITLE_BOCM_LINK)
    IN  IF is_relevant(get_text(html)) /\ results = <<>>
        THEN Append(results, page_item(src, html, TITLE_BOCM_PAGE))
        ELSE results

\* CHECKERS[src["type"]] for the two kinds that SOURCES uses
CHECKERS(type, src, html) ==
    CASE type = "html"        -> check_html_for_huelga(src, html)
      [] type = "bocm_search" -> check_bocm(src, html)

(***************************************************************************)
(* The HTTP responses a source can give.  session.get raises on a timeout   *)
(* or a connection failure; fetch_text returns the body of any response it  *)
(* receives.                                                                *)
(***************************************************************************)

Raises == [raises |-> TRUE, status |-> 0, body |-> <<>>]

Response(status, body) == [raises |-> FALSE, status |-> status, body |-> body]

\* fetch_text: the body of the response (defined when the request does not raise)
fetch_text(resp) == resp.body

\* One task of asyncio.gather(..., return_exceptions=True): the checker's result, or
\* the exception it raised.
run_checker(src, resp) ==
    IF resp.raises
    THEN [exc |-> TRUE, items |-> <<>>]
    ELSE [exc |-> FALSE, items |-> CHECKERS(src.type, src, fetch_text(resp))]

(***************************************************************************)
(* Inputs: the texts, hyperlinks and pages the sources are observed to      *)
(* serve in the checked runs.                                               *)
(***************************************************************************)

\* "Huelga de docentes"
TxtHuelgaDocentes ==
    <<"H","u","e","l","g","a"," ","d","e"," ","d","o","c","e","n","t","e","s">>

\* "Sin convocatorias esta semana"
TxtSinAvisos ==
    <<"S","i","n"," ","c","o","n","v","o","c","a","t","o","r","i","a","s"," ","e","s","t","a",
      " ","s","e","m","a","n","a">>

\* "Contacto"
TxtContacto ==
    <<"C","o","n","t","a","c","t","o">>

\* "/avisos/paro-1"
HrefAviso ==
    <<"/","a","v","i","s","o","s","/","p","a","r","o","-","1">>

\* "contacto.html"
HrefContacto ==
    <<"c","o","n","t","a","c","t","o",".","h","t","m","l">>

\* A page without any relevant hyperlink or text
PageQuiet == << Text(TxtSinAvisos), Link(TxtContacto, HrefContacto) >>

\* A page with one relevant hyperlink
PageOne == << Link(TxtHuelgaDocentes, HrefAviso), Link(TxtContacto, HrefContacto) >>

\* A page that shows the same relevant hyperlink twice (in its menu and in its body)
PageTwice == << Link(TxtHuelgaDocentes, HrefAviso), Text(TxtSinAvisos),
                Link(TxtHuelgaDocentes, HrefAviso) >>

\* What a request to source s can come to, numbered: the first source shows its notice
\* twice when it shows it, the second answers with an error status at times.
Responses(s) ==
    IF s = 1
    THEN << Raises, Response(200, PageQuiet), Response(200, PageTwice) >>
    ELSE << Raises, Response(200, PageQuiet), Response(200, PageOne),
            Response(503, PageOne) >>

\* The tasks' outcomes: CheckerOutcomes[s][k] is the outcome of the checker of source s
\* when its request comes to Responses(s)[k]
CheckerOutcomes ==
    [s \in DOMAIN SOURCES |->
        [k \in DOMAIN Responses(s) |-> run_checker(SOURCES[s], Responses(s)[k])]]

(***************************************************************************)
(* Inputs of the relevance filter and of the extractors when they are       *)
(* checked on their own                                                     *)
(***************************************************************************)

\* "Huelga"
FragHuelga ==
    <<"H","u","e","l","g","a">>

\* "huel"
FragHuel ==
    <<"h","u","e","l">>

\* "GA"
FragGa ==
    <<"G","A">>

\* " "
FragSpace ==
    <<" ">>

\* "UPM"
FragUpm ==
    <<"U","P","M">>

\* "microcampus"
FragMicrocampus ==
    <<"m","i","c","r","o","c","a","m","p","u","s">>

\* "transporte"
FragTransporte ==
    <<"t","r","a","n","s","p","o","r","t","e">>

\* "escolar"
FragEscolar ==
    <<"e","s","c","o","l","a","r">>

\* The pieces the texts given to is_relevant are made of
Fragments ==
    {FragHuelga, FragHuel, FragGa, FragSpace, FragUpm,
     FragMicrocampus, FragTransporte, FragEscolar}

\* How many pieces a text is made of at most
MaxFragments == 3

\* The texts of at most n pieces
RECURSIVE TextsUpTo(_)
TextsUpTo(n) ==
    IF n = 0 THEN {<<>>}
    ELSE LET shorter == TextsUpTo(n - 1)
         IN  shorter \cup {t \o f : t \in shorter, f \in Fragments}

Texts == TextsUpTo(MaxFragments)

\* "  HUELGA\n"
TxtHuelgaPadded ==
    <<" "," ","H","U","E","L","G","A","\n">>

\* "campus"
TxtCampus ==
    <<"c","a","m","p","u","s">>

\* "Convocada huelga general. "
TxtHuelgaGeneral ==
    <<"C","o","n","v","o","c","a","d","a"," ","h","u","e","l","g","a"," ","g","e","n","e","r",
      "a","l","."," ">>

\* "https://www.ucm.es/paro"
HrefUcm ==
    <<"h","t","t","p","s",":","/","/","w","w","w",".","u","c","m",".","e","s","/","p","a","r",
      "o">>

\* "//avisos/alumnado/"
HrefSlashes ==
    <<"/","/","a","v","i","s","o","s","/","a","l","u","m","n","a","d","o","/">>

\* "mailto:huelga@colegio.example"
HrefMailto ==
    <<"m","a","i","l","t","o",":","h","u","e","l","g","a","@","c","o","l","e","g","i","o",".",
      "e","x","a","m","p","l","e">>

\* "huelga-uam.pdf"
HrefHuelgaUam ==
    <<"h","u","e","l","g","a","-","u","a","m",".","p","d","f">>

\* s, n times over
RECURSIVE Repeated(_, _)
Repeated(s, n) == IF n = 0 THEN <<>> ELSE s \o Repeated(s, n - 1)

\* A text of 416 characters, longer than a summary: "Convocada huelga general. " 16 times
TxtLong == Repeated(TxtHuelgaGeneral, 16)

\* "UCM::https://www.ucm.es/paro"
IdPlain ==
    <<"U","C","M",":",":">> \o HrefUcm

\* An id whose url holds a quotation mark and a backslash
IdQuoted ==
    <<"U","C","M",":",":","h","t","t","p","s",":","/","/","w","w","w",".","u","c","m",".","e",
      "s","/","a","\"","b","\\","c">>

\* An id whose url reads like the end of a list and the start of another element
IdBrackets ==
    <<"U","C","M",":",":","h","t","t","p","s",":","/","/","w","w","w",".","u","c","m",".","e",
      "s","/","x","\"","]",","," ","\"","y">>

\* An id whose url holds a letter beyond ASCII, a line break and a trailing backslash
IdBreak ==
    <<"B","O","C","M",":",":","h","t","t","p","s",":","/","/","w","w","w",".","b","o","c","m",
      ".","e","s","/","a","ñ","o","\n","\\">>

\* The ids the saved lists are made of
StoreIds == {IdPlain, IdQuoted, IdBrackets, IdBreak}

\* How many ids a saved list has at most
MaxIds == 3

\* The lists of at most n ids (an id may stand in a list more than once)
RECURSIVE ListsUpTo(_)
ListsUpTo(n) ==
    IF n = 0 THEN {<<>>}
    ELSE LET shorter == ListsUpTo(n - 1)
         IN  shorter \cup {Append(l, x) : l \in shorter, x \in StoreIds}

SeenLists == ListsUpTo(MaxIds)

\* The nodes the pages given to the extractors are made of
Nodes ==
    { Link(TxtHuelgaDocentes, HrefAviso),   \* relevant by its text, target with a leading slash
      Link(TxtHuelgaPadded, HrefUcm),       \* relevant by text and target jointly, absolute target
      Link(TxtHuelgaDocentes, HrefSlashes), \* relevant, target with several leading slashes
      Link(TxtContacto, HrefMailto),        \* relevant by its target alone, which has a scheme
      BareLink(TxtCampus),                  \* a keyword, no anchor term, no href
      Link(<<>>, HrefHuelgaUam),            \* relevant by its target, no text
      Link(TxtContacto, HrefContacto),      \* not relevant
      Text(TxtHuelgaGeneral),               \* the anchor term in the text of the page
      Text(TxtLong) }                       \* the same, in a text longer than 400 characters

\* How many nodes a page given to the extractors has at most
MaxNodes == 3

RECURSIVE PagesUpTo(_)
PagesUpTo(n) ==
    IF n = 0 THEN {<<>>}
    ELSE LET shorter == PagesUpTo(n - 1)
         IN  shorter \cup {Append(p, x) : p \in shorter, x \in Nodes}

ExtractorPages == PagesUpTo(MaxNodes)

(***************************************************************************)
(* Bounds of the checked runs                                               *)
(***************************************************************************)

\* How many times channel.send may raise in one run
MaxSendFailures == 1

\* How many times the process may be killed and started again in one run
MaxRestarts == 1

\* How many times the gateway session may be lost and re-established in one run,
\* each time firing on_ready again
MaxReconnects == 1

(***************************************************************************)
(* State                                                                    *)
(***************************************************************************)

VARIABLES
    env,            \* the environment: [token |-> DISCORD_TOKEN is set, channel_id |-> CHANNEL_ID]
    web,            \* for every source s, the number in Responses(s) of the response its
                    \* url gives at present
    outcomes,       \* CheckerOutcomes, the checkers being pure: tabulated when the run
                    \* starts and read by every cycle
    proc,           \* "stopped", "running" (client.run is serving events) or "exited"
    ready_pending,  \* the client has a (new) session and has not yet called on_ready
    exit_status,    \* the status the process exited with
    file,           \* STATE_FILE: [kind |-> "missing" | "corrupt" | "json", seen |-> list of ids]
    loops,          \* the loop() tasks created so far in this process, with their closures
    delivered,      \* the item ids whose message the channel has received
    resent,         \* the item ids whose message the channel has received more than once
    send_failures,  \* channel.send exceptions so far
    restarts,       \* process restarts so far
    reconnects,     \* sessions re-established so far
    text,           \* the input of is_relevant under SpecFilter
    relevant,       \* << >> until is_relevant has been applied, then << its result >>
    page,           \* the input of the extractor under SpecExtract: [src, html]
    results,        \* << >> until the extractor has been applied, then << its result >>
    st_state,       \* under SpecStore: the state dict in memory, [seen |-> list of ids]
    st_file,        \* under SpecStore: STATE_FILE, [exists, text]
    st_pc           \* under SpecStore: "fresh", then "saved", "loaded", "resaved"

vars == << env, web, outcomes, proc, ready_pending, exit_status, file, loops, delivered, resent,
           send_failures, restarts, reconnects, text, relevant, page, results,
           st_state, st_file, st_pc >>

store_vars == << st_state, st_file, st_pc >>

pure_vars == << text, relevant, page, results, store_vars >>

counters == << send_failures, restarts, reconnects >>

\* The channels the client knows: client.get_channel(id) is None for any other id
KnownChannels == {1}

\* The values CHANNEL_ID takes in the checked runs: unset ("0"), a known channel, an unknown one
ChannelIds == {0, 1, 2}

\* The elements of a list
Range(s) == {s[i] : i \in DOMAIN s}

\* [it["id"] for it in items]
ids_of(items) == [i \in DOMAIN items |-> items[i].id]

(***************************************************************************)
(* Seen-set store                                                           *)
(***************************************************************************)

NoFile == [kind |-> "missing", seen |-> <<>>]

CorruptFile == [kind |-> "corrupt", seen |-> <<>>]

\* load_state with json.load's exception swallowed
load_raises_never(f) == FALSE

\* load_state raises when the file exists and json.load cannot read it
load_raises(f) == f.kind = "corrupt"

\* load_state(), when it does not raise
load_state(f) == IF f.kind = "json" THEN [seen |-> f.seen] ELSE [seen |-> <<>>]

\* save_state(state): the file after the call.  open(..., "w") may raise and leave
\* the file as it was; json.dump may raise after open has truncated the file.
save_state(state, outcome, f) ==
    CASE outcome = "ok"          -> [kind |-> "json", seen |-> state.seen]
      [] outcome = "open_fails"  -> f
      [] outcome = "write_fails" -> CorruptFile

SaveOutcomes == {"ok", "open_fails", "write_fails"}

(***************************************************************************)
(* The record in STATE_FILE, character by character: what json.dump writes  *)
(* for {"seen": [...]} with ensure_ascii=False and indent=2, and what       *)
(* json.load reads back.                                                    *)
(***************************************************************************)

\* The characters json.dump writes behind a backslash, by the character they stand for
JSON_ESCAPE == ("\"" :> "\"") @@ ("\\" :> "\\") @@ ("\n" :> "n") @@ ("\t" :> "t")

\* The characters json.load accepts behind a backslash, with what they stand for
JSON_UNESCAPE ==
    ("\"" :> "\"") @@ ("\\" :> "\\") @@ ("/" :> "/") @@ ("n" :> "\n") @@ ("t" :> "\t")

\* The characters json.load passes over between tokens
JSON_WS == {" ", "\t", "\n", "\r"}

\* The content of a string literal: quotes, backslashes and control characters escaped,
\* every other character (beyond ASCII too) as it is
RECURSIVE json_escape(_)
json_escape(s) ==
    IF s = <<>> THEN <<>>
    ELSE (IF Head(s) \in DOMAIN JSON_ESCAPE THEN <<"\\", JSON_ESCAPE[Head(s)]>>
          ELSE <<Head(s)>>) \o json_escape(Tail(s))

\* A string literal whose content is written as it is
json_string_unescaped(s) == <<"\"">> \o s \o <<"\"">>

\* A string literal
json_string(s) == <<"\"">> \o json_escape(s) \o <<"\"">>

\* The elements of a list that is not empty, each on a line of its own, indented by four
RECURSIVE json_elements(_)
json_elements(seen) ==
    <<"\n", " ", " ", " ", " ">> \o json_string(Head(seen))
       \o (IF Len(seen) = 1 THEN <<>> ELSE <<",">> \o json_elements(Tail(seen)))

\* json.dump(state, f, ensure_ascii=False, indent=2): the text written
json_dump(state) ==
    <<"{", "\n", " ", " ">> \o json_string(<<"s","e","e","n">>) \o <<":", " ", "[">>
       \o (IF state.seen = <<>> THEN <<>>
           ELSE json_elements(state.seen) \o <<"\n", " ", " ">>)
       \o <<"]", "\n", "}">>

\* What a part of the parser gives when the text is not as it expects
ParseFails == [ok |-> FALSE, val |-> <<>>, next |-> 0]

\* The first position from i on that holds no whitespace
RECURSIVE skip_ws(_, _)
skip_ws(t, i) == IF i <= Len(t) /\ t[i] \in JSON_WS THEN skip_ws(t, i + 1) ELSE i

\* The content of a string literal from position i, behind its opening quote
RECURSIVE scan_string(_, _, _)
scan_string(t, i, acc) ==
    IF i > Len(t) THEN ParseFails
    ELSE IF t[i] = "\"" THEN [ok |-> TRUE, val |-> acc, next |-> i + 1]
    ELSE IF t[i] = "\\"
         THEN IF i + 1 <= Len(t) /\ t[i + 1] \in DOMAIN JSON_UNESCAPE
              THEN scan_string(t, i + 2, Append(acc, JSON_UNESCAPE[t[i + 1]]))
              ELSE ParseFails
    ELSE IF t[i] \in {"\n", "\t", "\r"} THEN ParseFails
    ELSE scan_string(t, i + 1, Append(acc, t[i]))

\* A string literal at position i
parse_string(t, i) ==
    IF i <= Len(t) /\ t[i] = "\"" THEN scan_string(t, i + 1, <<>>) ELSE ParseFails

\* The elements of a list that is not empty, the next one due at position i
RECURSIVE parse_elements(_, _, _)
parse_elements(t, i, acc) ==
    LET s == parse_string(t, skip_ws(t, i))
        j == skip_ws(t, s.next)
    IN  IF ~s.ok \/ j > Len(t) THEN ParseFails
        ELSE IF t[j] = "," THEN parse_elements(t, j + 1, Append(acc, s.val))
        ELSE IF t[j] = "]" THEN [ok |-> TRUE, val |-> Append(acc, s.val), next |-> j + 1]
        ELSE ParseFails

\* A list of strings at position i
parse_array(t, i) ==
    IF i > Len(t) \/ t[i] # "[" THEN ParseFails
    ELSE LET j == skip_ws(t, i + 1)
         IN  IF j <= Len(t) /\ t[j] = "]"
             THEN [ok |-> TRUE, val |-> <<>>, next |-> j + 1]
             ELSE parse_elements(t, j, <<>>)

\* json.load(f) on a text that holds, if anything json.load can read, an object with the
\* one key "seen" and a list of strings: [raises, state]
json_load(t) ==
    LET open  == skip_ws(t, 1)
        key   == parse_string(t, skip_ws(t, open + 1))
        colon == skip_ws(t, key.next)
        arr   == parse_array(t, skip_ws(t, colon + 1))
        close == skip_ws(t, arr.next)
        ok    == /\ open <= Len(t) /\ t[open] = "{"
                 /\ key.ok /\ key.val = <<"s","e","e","n">>
                 /\ colon <= Len(t) /\ t[colon] = ":"
                 /\ arr.ok
                 /\ close <= Len(t) /\ t[close] = "}"
                 /\ skip_ws(t, close + 1) > Len(t)
    IN  IF ok THEN [raises |-> FALSE, state |-> [seen |-> arr.val]]
        ELSE [raises |-> TRUE, state |-> [seen |-> <<>>]]

(***************************************************************************)
(* gather_new_items                                                         *)
(***************************************************************************)

\* The inner for-loop: the items of one result whose id is not in state["seen"]
unseen(state, items) == SelectSeq(items, LAMBDA item : item.id \notin Range(state.seen))

\* The outer for-loop leaving at the first exception instead of passing over it
RECURSIVE collect_until_exception(_, _)
collect_until_exception(state, res) ==
    IF res = <<>> \/ Head(res).exc THEN <<>>
    ELSE unseen(state, Head(res).items) \o collect_until_exception(state, Tail(res))

\* The outer for-loop over the gathered results, an exception contributing nothing
RECURSIVE collect(_, _)
collect(state, res) ==
    IF res = <<>> THEN <<>>
    ELSE (IF Head(res).exc THEN <<>> ELSE unseen(state, Head(res).items))
         \o collect(state, Tail(res))

\* gather_new_items(state), given the number of the response each source's request
\* comes to
gather_new_items(state, resps) ==
    collect(state, [s \in 1..Len(SOURCES) |-> outcomes[s][resps[s]]])

(***************************************************************************)
(* Process start-up                                                         *)
(***************************************************************************)

\* The start-up test with `and` for `or`
config_missing_both(e) == ~e.token /\ e.channel_id = 0

\* not DISCORD_TOKEN or CHANNEL_ID == 0
config_missing(e) == ~e.token \/ e.channel_id = 0

\* The __main__ block
Main ==
    /\ proc = "stopped"
    /\ IF config_missing(env)
       THEN proc' = "exited" /\ exit_status' = 1 /\ UNCHANGED ready_pending
       ELSE proc' = "running" /\ ready_pending' = TRUE /\ UNCHANGED exit_status
    /\ UNCHANGED << env, web, outcomes, file, loops, delivered, resent, counters, pure_vars >>

\* The closure on_ready builds for its loop() task
new_loop(f, e) ==
    [ seen      |-> load_state(f).seen,
      channel   |-> e.channel_id \in KnownChannels,
      pc        |-> "idle",
      new_items |-> <<>>,
      i         |-> 0,
      tick      |-> 0,
      same_docs |-> FALSE ]

\* on_ready: an exception of load_state ends the handler before the task is created
OnReady ==
    /\ proc = "running"
    /\ ready_pending
    /\ ready_pending' = FALSE
    /\ loops' = IF load_raises(file) THEN loops ELSE Append(loops, new_loop(file, env))
    /\ UNCHANGED << env, web, outcomes, proc, exit_status, file, delivered, resent, counters,
                    pure_vars >>

\* The gateway session is lost and a new one established: the client fires on_ready
\* again, in the same process, beside the tasks it has already created.
Reconnect ==
    /\ proc = "running"
    /\ ~ready_pending
    /\ reconnects < MaxReconnects
    /\ reconnects' = reconnects + 1
    /\ ready_pending' = TRUE
    /\ UNCHANGED << env, web, outcomes, proc, exit_status, file, loops, delivered, resent,
                    send_failures, restarts, pure_vars >>

(***************************************************************************)
(* The sources                                                              *)
(***************************************************************************)

\* A source starts to answer differently: no loop's last documents are current any more
Change(s) ==
    /\ \E k \in DOMAIN Responses(s) :
          /\ k # web[s]
          /\ web' = [web EXCEPT ![s] = k]
    /\ loops' = [l \in DOMAIN loops |-> [loops[l] EXCEPT !.same_docs = FALSE]]
    /\ UNCHANGED << env, outcomes, proc, ready_pending, exit_status, file, delivered,
                    resent, counters, pure_vars >>

(***************************************************************************)
(* One loop() task                                                          *)
(***************************************************************************)

\* The cycle with the appends and save_state moved out of `if new_items:`, done in
\* every cycle
after_gather_saving(loop, resps) ==
    LET new_items == gather_new_items([seen |-> loop.seen], resps)
    IN  [loop EXCEPT !.same_docs = \A s \in DOMAIN resps : ~Responses(s)[resps[s]].raises,
                     !.tick = (loop.tick + 1) % 2,
                     !.new_items = new_items,
                     !.i = 0,
                     !.pc = IF new_items # <<>> /\ loop.channel THEN "notify" ELSE "commit"]

\* After gather_new_items: where the cycle goes with its new items.  tick counts the
\* cycles of the task modulo 2; same_docs records that every source gave a document,
\* which it serves unchanged until Change.
after_gather(loop, resps) ==
    LET new_items == gather_new_items([seen |-> loop.seen], resps)
    IN  [loop EXCEPT !.same_docs = \A s \in DOMAIN resps : ~Responses(s)[resps[s]].raises,
                     !.tick = (loop.tick + 1) % 2,
                     !.new_items = new_items,
                     !.i = 0,
                     !.pc = IF new_items = <<>> THEN "idle"
                            ELSE IF loop.channel THEN "notify" ELSE "commit"]

\* The sleep ends and the cycle gathers what the sources give
Poll(l) ==
    /\ proc = "running"
    /\ l \in DOMAIN loops
    /\ loops[l].pc = "idle"
    /\ loops' = [loops EXCEPT ![l] = after_gather(loops[l], web)]
    /\ UNCHANGED << env, web, outcomes, proc, ready_pending, exit_status, file, delivered, resent,
                    counters, pure_vars >>

\* notify_channel after channel.send returned for one more item
after_send(loop) ==
    [loop EXCEPT !.i = loop.i + 1,
                 !.pc = IF loop.i + 1 = Len(loop.new_items) THEN "commit" ELSE "notify"]

\* channel.send delivers the next item of the batch
Send(l) ==
    /\ proc = "running"
    /\ l \in DOMAIN loops
    /\ loops[l].pc = "notify"
    /\ LET id == loops[l].new_items[loops[l].i + 1].id
       IN  /\ delivered' = delivered \cup {id}
           /\ resent' = IF id \in delivered THEN resent \cup {id} ELSE resent
    /\ loops' = [loops EXCEPT ![l] = after_send(loops[l])]
    /\ UNCHANGED << env, web, outcomes, proc, ready_pending, exit_status, file, counters, pure_vars >>

\* loop() without its except clause: the exception ends the task
after_exception_uncaught(loop) == [loop EXCEPT !.pc = "ended"]

\* The except clause of loop(): the cycle is abandoned where it raised
after_exception(loop) == [loop EXCEPT !.pc = "idle"]

\* channel.send raises: the exception leaves notify_channel and reaches loop()
SendRaises(l) ==
    /\ proc = "running"
    /\ l \in DOMAIN loops
    /\ loops[l].pc = "notify"
    /\ send_failures < MaxSendFailures
    /\ send_failures' = send_failures + 1
    /\ loops' = [loops EXCEPT ![l] = after_exception(loops[l])]
    /\ UNCHANGED << env, web, outcomes, proc, ready_pending, exit_status, file, delivered, resent,
                    restarts, reconnects, pure_vars >>

\* The seen list replaced by the ids of the batch instead of extended by them
mark_seen_replacing(loop) == [loop EXCEPT !.seen = ids_of(loop.new_items)]

\* for it in new_items: state["seen"].append(it["id"])
mark_seen(loop) == [loop EXCEPT !.seen = loop.seen \o ids_of(loop.new_items)]

\* The appends and save_state, then the sleep; an exception of save_state is caught
Commit(l) ==
    /\ proc = "running"
    /\ l \in DOMAIN loops
    /\ loops[l].pc = "commit"
    /\ \E outcome \in SaveOutcomes :
          /\ file' = save_state([seen |-> mark_seen(loops[l]).seen], outcome, file)
          /\ loops' = [loops EXCEPT ![l] =
                          IF outcome = "ok" THEN [mark_seen(loops[l]) EXCEPT !.pc = "idle"]
                          ELSE after_exception(mark_seen(loops[l]))]
    /\ UNCHANGED << env, web, outcomes, proc, ready_pending, exit_status, delivered, resent,
                    counters, pure_vars >>

\* The process is killed and started again; the file and the channel outlive it
Restart ==
    /\ proc = "running"
    /\ restarts < MaxRestarts
    /\ restarts' = restarts + 1
    /\ proc' = "stopped"
    /\ ready_pending' = FALSE
    /\ loops' = <<>>
    /\ UNCHANGED << env, web, outcomes, exit_status, file, delivered, resent, send_failures,
                    reconnects, pure_vars >>

(***************************************************************************)
(* Specifications                                                           *)
(***************************************************************************)

NoText == <<>>

NoPage == [src |-> 1, html |-> <<>>]

\* The scheduler before the process is started
SchedulerInit ==
    /\ env \in [token : BOOLEAN, channel_id : ChannelIds]
    /\ web \in (DOMAIN Responses(1)) \X (DOMAIN Responses(2))
    /\ outcomes = CheckerOutcomes
    /\ proc = "stopped"
    /\ ready_pending = FALSE
    /\ exit_status = 0
    /\ file \in {NoFile, CorruptFile}
    /\ loops = <<>>
    /\ delivered = {}
    /\ resent = {}
    /\ send_failures = 0
    /\ restarts = 0
    /\ reconnects = 0

\* The store check left alone
StoreOff ==
    /\ st_state = [seen |-> <<>>]
    /\ st_file = [exists |-> FALSE, text |-> <<>>]
    /\ st_pc = "fresh"

Init ==
    /\ SchedulerInit
    /\ text = NoText
    /\ relevant = <<>>
    /\ page = NoPage
    /\ results = <<>>
    /\ StoreOff

\* The runs of a client whose gateway session is never lost: one on_ready per process
Next ==
    \/ Main
    \/ OnReady
    \/ \E s \in 1..Len(SOURCES) : Change(s)
    \/ \E l \in DOMAIN loops : Poll(l)
    \/ \E l \in DOMAIN loops : Send(l)
    \/ \E l \in DOMAIN loops : SendRaises(l)
    \/ \E l \in DOMAIN loops : Commit(l)
    \/ Restart

Spec == Init /\ [][Next]_vars

\* The runs in which the gateway session is lost and re-established, while the sources
\* keep answering as they do and no send raises
NextReconnect ==
    \/ Main
    \/ OnReady
    \/ Reconnect
    \/ \E l \in DOMAIN loops : Poll(l)
    \/ \E l \in DOMAIN loops : Send(l)
    \/ \E l \in DOMAIN loops : Commit(l)

SpecReconnect == Init /\ [][NextReconnect]_vars

\* The same runs, with what the event loop guarantees: a task that can take its next
\* step (the sleep ending, a send returning, the appends and the save) takes it.
LoopStep(l) == Poll(l) \/ Send(l) \/ Commit(l)

FairSpec == Spec /\ \A l \in 1..(MaxReconnects + 1) : WF_vars(LoopStep(l))

\* The scheduler left alone while a pure function is applied to a drawn input
SchedulerOff ==
    /\ env = [token |-> FALSE, channel_id |-> 0]
    /\ web = <<1, 1>>
    /\ outcomes = <<>>
    /\ proc = "stopped"
    /\ ready_pending = FALSE
    /\ exit_status = 0
    /\ file = NoFile
    /\ loops = <<>>
    /\ delivered = {}
    /\ resent = {}
    /\ send_failures = 0
    /\ restarts = 0
    /\ reconnects = 0

sched_vars == << env, web, outcomes, proc, ready_pending, exit_status, file, loops, delivered,
                 resent, counters >>

\* is_relevant applied to a drawn text
InitFilter ==
    /\ SchedulerOff
    /\ text \in Texts
    /\ relevant = <<>>
    /\ page = NoPage
    /\ results = <<>>
    /\ StoreOff

ApplyFilter ==
    /\ relevant = <<>>
    /\ relevant' = << is_relevant(text) >>
    /\ UNCHANGED << sched_vars, text, page, results, store_vars >>

SpecFilter == InitFilter /\ [][ApplyFilter]_vars

\* The extractor of a drawn source applied to a drawn page
InitExtract ==
    /\ SchedulerOff
    /\ text = NoText
    /\ relevant = <<>>
    /\ page \in [src : 1..Len(SOURCES), html : ExtractorPages]
    /\ results = <<>>
    /\ StoreOff

ApplyExtractor ==
    /\ results = <<>>
    /\ results' = << CHECKERS(SOURCES[page.src].type, SOURCES[page.src], page.html) >>
    /\ UNCHANGED << sched_vars, text, relevant, page, store_vars >>

SpecExtract == InitExtract /\ [][ApplyExtractor]_vars

\* save_state and load_state applied in turn to a drawn seen list: the list is saved,
\* read back as on_ready reads it, and saved again
InitStore ==
    /\ SchedulerOff
    /\ text = NoText
    /\ relevant = <<>>
    /\ page = NoPage
    /\ results = <<>>
    /\ st_state \in [seen : SeenLists]
    /\ st_file = [exists |-> FALSE, text |-> <<>>]
    /\ st_pc = "fresh"

\* save_state(state): open(STATE_FILE, "w") and json.dump
StoreSave ==
    /\ st_pc \in {"fresh", "loaded"}
    /\ st_file' = [exists |-> TRUE, text |-> json_dump(st_state)]
    /\ st_pc' = IF st_pc = "fresh" THEN "saved" ELSE "resaved"
    /\ UNCHANGED << sched_vars, text, relevant, page, results, st_state >>

\* state = load_state(): json.load when the file exists and can be read
StoreLoad ==
    /\ st_pc = "saved"
    /\ ~(st_file.exists /\ json_load(st_file.text).raises)
    /\ st_state' = IF st_file.exists THEN json_load(st_file.text).state ELSE [seen |-> <<>>]
    /\ st_pc' = "loaded"
    /\ UNCHANGED << sched_vars, text, relevant, page, results, st_file >>

SpecStore == InitStore /\ [][StoreSave \/ StoreLoad]_vars

(***************************************************************************)
(* Properties                                                               *)
(***************************************************************************)

\* Loop task l exists in the running process
Alive(l) == proc = "running" /\ l \in DOMAIN loops

\* The step is a step of task l that begins a cycle (only Poll advances tick)
PollStep(l) ==
    /\ Alive(l)
    /\ proc' = "running"
    /\ l \in DOMAIN loops'
    /\ loops'[l].tick # loops[l].tick

\* The step is on_ready running to its end or to its exception
OnReadyStep == ready_pending /\ ~ready_pending' /\ proc' = "running"

\* C1: no item id is delivered to the channel more than once, over any sequence of cycles
\* and restarts, failing cycles and documents that yield one id twice included.
C1_AtMostOnce == resent = {}

\* C2: within one process, an id that is in a task's state["seen"] is in it after every
\* step, whatever the step (a successful cycle, a failing send, a failing save).
C2_SeenAppendOnly ==
    [][\A l \in DOMAIN loops :
          proc' = "running" =>
             /\ l \in DOMAIN loops'
             /\ Range(loops[l].seen) \subseteq Range(loops'[l].seen)]_vars

\* C2 witness: a task that has taken a failing send holds the ids of both sources
C2_Witness ==
    \E l \in DOMAIN loops :
       /\ send_failures > 0
       /\ Cardinality(Range(loops[l].seen)) >= 2

\* The response source s gives at present
Served(s) == Responses(s)[web[s]]

\* What source s contributes to a cycle of a task with the given seen list: nothing when
\* its request raises, else its extracted items whose id is not yet seen, in order
Contribution(s, seen) ==
    IF Served(s).raises THEN <<>>
    ELSE SelectSeq(CHECKERS(SOURCES[s].type, SOURCES[s], Served(s).body),
                   LAMBDA it : \A k \in DOMAIN seen : seen[k] # it.id)

\* C3: in a cycle where the request of one source raises, the new items are exactly the
\* not-yet-seen items of the other source, and the cycle goes on to handle them.
C3_FailureIsolation ==
    [][\A l \in DOMAIN loops :
          (PollStep(l) /\ \E s \in DOMAIN web : Served(s).raises) =>
             /\ loops'[l].new_items =
                   Contribution(1, loops[l].seen) \o Contribution(2, loops[l].seen)
             /\ loops'[l].new_items # <<>> => loops'[l].pc \in {"notify", "commit"}
             /\ loops'[l].new_items = <<>> => loops'[l].pc = "idle"]_vars

\* C3 witness: the first source fails, the second answers, and the cycle has the second
\* source's item to notify
C3_Witness ==
    \E l \in DOMAIN loops :
       /\ Served(1).raises /\ ~Served(2).raises
       /\ loops[l].pc = "notify" /\ loops[l].i = 0
       /\ Len(loops[l].new_items) = 1
       /\ ~loops[l].same_docs

\* C4: a loop task is never ended by an error inside a cycle: from any point of a cycle it
\* returns to the sleep, and after every cycle it begins another one, as long as the
\* process runs.
C4_LoopNeverStops ==
    \A l \in 1..(MaxReconnects + 1) :
       /\ [](Alive(l) => <>(~Alive(l) \/ loops[l].pc = "idle"))
       /\ \A b \in {0, 1} :
             [](Alive(l) /\ loops[l].tick = b => <>(~Alive(l) \/ loops[l].tick # b))

\* C4 witness: after a send has raised, the task is again in the middle of a batch
C4_Witness ==
    \E l \in DOMAIN loops :
       /\ send_failures > 0
       /\ loops[l].pc = "notify"
       /\ loops[l].i > 0

\* C5: a cycle that fetches the same unchanged documents as the cycle before it, from
\* every source, finds zero new items.
C5_CycleIdempotence ==
    [][\A l \in DOMAIN loops :
          (PollStep(l) /\ loops[l].same_docs) => loops'[l].new_items = <<>>]_vars

\* C6: when channel.send raises for an item that is not the last of its batch, the
\* batch goes on with the next item.
C6_BatchContinues ==
    [][\A l \in DOMAIN loops :
          ( /\ Alive(l)
            /\ send_failures' = send_failures + 1
            /\ loops[l].pc = "notify"
            /\ loops[l].i + 1 < Len(loops[l].new_items) ) =>
             /\ loops'[l].pc = "notify"
             /\ loops'[l].i = loops[l].i + 1
             /\ loops'[l].new_items = loops[l].new_items]_vars

\* C7: with the token absent or the channel zero the process never serves events: it
\* has no session, no loop task (so no fetch, no message, no write of the file), and
\* once it has run it has exited with a non-zero status.
C7_MissingConfigIsFatal ==
    (~env.token \/ env.channel_id = 0) =>
       /\ proc \in {"stopped", "exited"}
       /\ ~ready_pending
       /\ loops = <<>>
       /\ delivered = {}
       /\ file \in {NoFile, CorruptFile}
       /\ proc = "exited" => exit_status # 0

\* C7 witness: the token is set, the channel is zero, and the process has exited
C7_Witness == env.token /\ env.channel_id = 0 /\ proc = "exited" /\ exit_status = 1

\* C8: on_ready that finds no file starts its task with an empty seen list; on_ready that
\* finds an unreadable file creates no task; and a process without a task, its file
\* unreadable, starts no cycle, sends nothing and leaves the file as it is.
C8_LoadAtStartup ==
    [][/\ (OnReadyStep /\ file.kind = "missing") =>
             /\ Len(loops') = Len(loops) + 1
             /\ loops'[Len(loops')].seen = <<>>
       /\ (OnReadyStep /\ file.kind = "corrupt") => loops' = loops
       /\ (file.kind = "corrupt" /\ loops = <<>>) =>
             /\ loops' = <<>>
             /\ file' = file
             /\ delivered' = delivered]_vars

\* C8 witness: on_ready has run in a process whose file is unreadable, and no task exists
C8_Witness ==
    /\ proc = "running"
    /\ ~ready_pending
    /\ file.kind = "corrupt"
    /\ loops = <<>>

\* t has w as a substring: t is some prefix, then w, then some suffix
HasSubstring(t, w) ==
    \E i \in 0..Len(t) : \E j \in i..Len(t) : [k \in 1..(j - i) |-> t[i + k]] = w

\* C9: is_relevant(text) is true exactly when the lower-cased text has "huelga" as a
\* substring and has some keyword as a substring, wherever in a word they stand.
C9_RelevantIffAnchorAndKeyword ==
    relevant # <<>> =>
       relevant[1] = ( /\ HasSubstring(lower(text), ANCHOR)
                       /\ \E kw \in Range(EDU_KEYWORDS) : HasSubstring(lower(text), kw) )

\* C9 witness: "huelGAmicrocampus", the anchor term spelt in mixed case and the keyword
\* inside a longer word, is found relevant
C9_Witness ==
    /\ text = FragHuel \o FragGa \o FragMicrocampus
    /\ relevant = <<TRUE>>

\* s without its trailing (at_end) or leading slashes: what is left of s when the
\* longest run of "/" at that end is cut off
WithoutSlashes(s, at_end) ==
    LET n == CHOOSE m \in 0..Len(s) :
                /\ \A k \in 1..m : s[IF at_end THEN Len(s) + 1 - k ELSE k] = "/"
                /\ m < Len(s) => s[IF at_end THEN Len(s) - m ELSE m + 1] # "/"
    IN  IF at_end THEN SubSeq(s, 1, Len(s) - n) ELSE SubSeq(s, n + 1, Len(s))

\* The url of a link of source s: an absolute target (one that begins with "http") as it
\* is, any other target joined to the source url by one slash
ResolvedUrl(s, href) ==
    IF Len(href) >= 4 /\ <<href[1], href[2], href[3], href[4]>> = <<"h","t","t","p">>
    THEN href
    ELSE WithoutSlashes(SOURCES[s].url, TRUE) \o <<"/">> \o WithoutSlashes(href, FALSE)

\* The targets of the relevant links of a page, in document order
RECURSIVE RelevantTargets(_)
RelevantTargets(html) ==
    IF html = <<>> THEN <<>>
    ELSE LET n == Head(html)
             h == IF n.tag = "a" /\ "href" \in DOMAIN n THEN n.href ELSE <<>>
         IN  (IF n.tag = "a" /\ is_relevant(strip(n.text) \o <<" ">> \o h)
              THEN <<h>> ELSE <<>>) \o RelevantTargets(Tail(html))

Occurs(w, t) ==
    \E i \in 1..(Len(t) - Len(w) + 1) : \A k \in 1..Len(w) : t[i + k - 1] = w[k]

\* C11: for a page with no relevant link, either extractor gives exactly one item when
\* the whole text of the page is relevant, its url the source url, its id name + "::" +
\* source url and its summary of at most 400 characters, and gives no item when the text
\* of the page is not relevant.
C11_PageFallback ==
    results # <<>> =>
       LET src == SOURCES[page.src]
           out == results[1]
           txt == lower(get_text(page.html))
       IN  RelevantTargets(page.html) = <<>> =>
              IF Occurs(ANCHOR, txt) /\ \E kw \in Range(EDU_KEYWORDS) : Occurs(kw, txt)
              THEN /\ Len(out) = 1
                   /\ out[1].url = src.url
                   /\ out[1].id = src.name \o <<":", ":">> \o src.url
                   /\ Len(out[1].summary) <= 400
              ELSE out = <<>>

\* C11 witness: a page of 422 characters, its keyword after the 400th and in a link that
\* is not relevant, has given one item with a summary of 400 characters
C11_Witness ==
    /\ page.html = << Text(TxtLong), BareLink(TxtCampus) >>
    /\ results # <<>>
    /\ Len(results[1]) = 1
    /\ Len(results[1][1].summary) = 400

\* The ids of the record in the file (none when the file is missing)
RecordIds(f) == IF f.exists THEN Range(json_load(f.text).state.seen) ELSE {}

\* C12: the state that load_state returns after a save_state has the set of ids of the
\* state that was saved, whatever that state, and a save_state of a state that
\* load_state returned leaves the set of ids of the record as it was.
C12_PersistenceRoundTrip ==
    [][/\ (st_pc = "fresh" /\ st_pc' = "saved") => ~json_load(st_file'.text).raises
       /\ (st_pc = "saved" /\ st_pc' = "loaded") =>
             Range(st_state'.seen) = Range(st_state.seen)
       /\ (st_pc = "loaded" /\ st_pc' = "resaved") =>
             /\ ~json_load(st_file'.text).raises
             /\ RecordIds(st_file') = RecordIds(st_file)]_vars

\* C12 witness: a list of three ids, with quotation marks, backslashes, a line break and
\* one id twice, has been saved, loaded and saved again
C12_Witness ==
    /\ st_pc = "resaved"
    /\ st_state.seen = << IdBrackets, IdBreak, IdBrackets >>

\* The ids that the step appends to the seen list of task l
Appended(l) ==
    IF Alive(l) /\ proc' = "running" /\ l \in DOMAIN loops'
    THEN {loops'[l].seen[k] : k \in (Len(loops[l].seen) + 1)..Len(loops'[l].seen)}
    ELSE {}

\* C13: every id that a cycle appends to state["seen"] is the id of an item that the
\* channel has received, also in a process whose channel was not found at start-up.
C13_SeenOnlyAfterDelivery ==
    [][\A l \in DOMAIN loops : Appended(l) \subseteq delivered']_vars

\* The step is a channel.send of task l that raises
SendRaisesStep(l) ==
    /\ Alive(l)
    /\ loops[l].pc = "notify"
    /\ send_failures' = send_failures + 1

\* C14: when channel.send raises in a batch, the cycle ends without a message for the
\* item or for the later ones, and at its end the ids of the batch that are in
\* state["seen"] are the ids of the items sent before the failure, and no other.
C14_PartialBatchMarkedSeen ==
    [][\A l \in DOMAIN loops :
          SendRaisesStep(l) =>
             LET batch  == loops[l].new_items
                 before == {batch[k].id : k \in 1..loops[l].i}
             IN  /\ delivered' = delivered
                 /\ loops'[l].pc = "idle"
                 /\ Range(loops'[l].seen) \cap Range(ids_of(batch)) = before]_vars

\* The step ends a cycle of task l that had new items: the task goes to its sleep
CycleEndStep(l) ==
    /\ Alive(l)
    /\ loops[l].pc \in {"notify", "commit"}
    /\ proc' = "running"
    /\ loops'[l].pc = "idle"

\* C15: when a cycle that had new items ends, the file holds a whole record whose ids
\* are those of state["seen"], the ids of the cycle's items among them.
C15_SavedEveryProductiveCycle ==
    [][\A l \in DOMAIN loops :
          CycleEndStep(l) =>
             /\ file'.kind = "json"
             /\ Range(file'.seen) = Range(loops'[l].seen)
             /\ Range(ids_of(loops[l].new_items)) \subseteq Range(loops'[l].seen)]_vars

\* The ids of the record the file holds (none when it is missing or unreadable)
FileIds == IF file.kind = "json" THEN Range(file.seen) ELSE {}

\* Task l holds ids that the file does not: a save_state of the task has raised and
\* none has returned since
Unsaved(l) == Range(loops[l].seen) # FileIds

\* The step is the appends and a save_state of task l that raises
SaveRaisesStep(l) ==
    /\ Alive(l)
    /\ loops[l].pc = "commit"
    /\ proc' = "running"
    /\ loops'[l].pc # "commit"
    /\ ~(file'.kind = "json" /\ file'.seen = loops'[l].seen)

\* The step is a whole cycle of task l that finds nothing new
EmptyCycleStep(l) == PollStep(l) /\ loops'[l].pc = "idle"

\* C16: a save_state that raises does not end the task, which keeps the ids of the
\* cycle in state["seen"]; and every cycle of a task that holds unsaved ids calls
\* save_state again, so that when the cycle ends the file holds these ids unless
\* save_state has raised once more.
C16_SaveRetriedNextCycle ==
    [][\A l \in DOMAIN loops :
          /\ SaveRaisesStep(l) =>
                /\ loops'[l].pc = "idle"
                /\ Range(loops[l].seen) \cup Range(ids_of(loops[l].new_items))
                      \subseteq Range(loops'[l].seen)
          /\ (Alive(l) /\ Unsaved(l) /\ (EmptyCycleStep(l) \/ CycleEndStep(l))) =>
                \/ SaveRaisesStep(l)
                \/ Range(loops'[l].seen) = FileIds']_vars

\* C17: a cycle that finds no new item is over when gather_new_items returns: the task
\* goes to its sleep with state["seen"] as it was, the file is not written and the
\* channel receives nothing.
C17_EmptyCycleNoStoreAction ==
    [][\A l \in DOMAIN loops :
          (PollStep(l) /\ loops'[l].new_items = <<>>) =>
             /\ loops'[l].pc = "idle"
             /\ loops'[l].seen = loops[l].seen
             /\ file' = file
             /\ delivered' = delivered
             /\ resent' = resent]_vars

\* C17 witness: a task of a process that started without ids has saved two and has since
\* been through a cycle that found nothing new
C17_Witness ==
    \E l \in DOMAIN loops :
       /\ Alive(l)
       /\ restarts = 0
       /\ loops[l].pc = "idle"
       /\ loops[l].tick = 0
       /\ loops[l].new_items = <<>>
       /\ Len(loops[l].seen) >= 2
       /\ file.kind = "json"

\* The fetch of source s fails: the request raises, or its response has a status other
\* than 2xx
FetchFails(s) == Served(s).raises \/ Served(s).status \notin 200..299

\* C18: a source whose response has a status other than 2xx gives a cycle nothing, as a
\* source whose request raises: the new items of every cycle are the not-yet-seen items
\* extracted from the documents of the sources whose fetch did not fail.
C18_ErrorStatusIsFetchFailure ==
    [][\A l \in DOMAIN loops :
          PollStep(l) =>
             LET given(s) == IF FetchFails(s) THEN <<>> ELSE Contribution(s, loops[l].seen)
             IN  loops'[l].new_items = given(1) \o given(2)]_vars

\* C19: at every time the process has at most one loop task, also after on_ready has
\* been called again for a new session.
C19_SingleLoop == Len(loops) <= 1

\* No element stands in the list twice
NoDuplicates(s) == \A j, k \in DOMAIN s : s[j] = s[k] => j = k

\* C20: state["seen"] never holds an id twice, and the new items of a cycle never
\* include two items with the same id.
C20_NoDuplicateIds ==
    \A l \in DOMAIN loops :
       /\ NoDuplicates(loops[l].seen)
       /\ NoDuplicates(ids_of(loops[l].new_items))

=============================================================================
